---- MODULE Spec2Model ----
(***************************************************************************)
(* Session acquisition and output pipeline of manim-binder (src/src/main.ts,*)
(* and the build of src/unnamed/part_000 that restarts the kernel per run) *)
(*                                                                         *)
(* One page: the module-level state of the IIFE (_kernel, _fromStorage,    *)
(* _kernel_manager, _contents_manager, storage_expire), the localStorage   *)
(* entry under storage_key, one output area per cell, and one record per   *)
(* call of execute().  Every action is one browser task together with the  *)
(* promise reactions (microtasks) it triggers, which run to completion     *)
(* before the next task starts.                                            *)
(***************************************************************************)
EXTENDS Naturals, Sequences, FiniteSets, TLC

VARIABLES
    now,                \* new Date().getTime(), in ms
    storage_expire,     \* main.ts:423, minutes
    stored,             \* window.localStorage entry under storage_key: Null or <<entry>>
    _fromStorage,       \* main.ts:429
    _kernel,            \* main.ts:430: Null or <<kernel>>
    _kernel_manager,    \* main.ts:431: Null or <<baseUrl of its serverSettings>>
    _contents_manager,  \* main.ts:433: Null or <<baseUrl of its serverSettings>>
    out,                \* per cell: the OutputArea (model list, clearNext, future)
    runs,               \* one record per execute() call, in call order
    task,               \* the task that ran last: what it was given and what it called
    variant,            \* the build: "persistent" (main.ts) or "isolated" (part_000)
    media               \* the <video> element of an output and the handler runs on it

vars == <<now, storage_expire, stored, _fromStorage, _kernel, _kernel_manager,
          _contents_manager, out, runs, task, variant, media>>

----------------------------------------------------------------------------
(* Bounds of the model *)

MaxRuns == 2        \* execute() calls on the page
MaxTicks == 1       \* clock advances
MaxChanges == 2     \* changes of an output model while it shows a video

Cells == {"c1", "c2"}

----------------------------------------------------------------------------
(* Program constants *)

DEFAULT_STORAGE_EXPIRE == 60
DEFAULT_BINDER_URL == "https://mybinder.org"

Null == <<>>
Some(x) == <<x>>
Undefined == "undefined"        \* a JSON field that is absent

TickMs == 30 * 60 * 1000
Now0 == 2 * TickMs

----------------------------------------------------------------------------
(* Launch service events: { phase, url?, token?, message? } *)

Msg(p, u, t, m) == [phase |-> p, url |-> u, token |-> t, message |-> m]

OtherPhases == {"building", "waiting", "Ready", Undefined}
ReadyUrls == {"http://X", "https://Y"}

OtherMsgs == {Msg(p, Undefined, Undefined, Undefined) : p \in OtherPhases}
FailedMsgs == {Msg("failed", Undefined, Undefined, "m")}
ReadyMsgs == {Msg("ready", u, "T", Undefined) : u \in ReadyUrls \cup {Undefined}}
Msgs == OtherMsgs \cup FailedMsgs \cup ReadyMsgs

NoMsg == Msg(Undefined, Undefined, Undefined, Undefined)

\* The messages that end a launch, and the others
TerminalMsgs == FailedMsgs \cup {m \in ReadyMsgs : m.url # Undefined}

\* String.prototype.toLowerCase on the phases that occur
ToLowerCase(s) ==
    CASE s = "Ready" -> "ready"
      [] s = "Failed" -> "failed"
      [] OTHER -> s

\* JS truthiness of a string field
Truthy(s) == s # Undefined /\ s # ""

\* String.prototype.slice(n) for n >= 0
Slice(s, n) == SubSeq(s, n + 1, Len(s))

\* new Error(x).message: ToString(x); a parsed JSON object gives "[object Object]"
ErrorOfObject(msg) == "[object Object]"
ErrorOfString(s) == s

NoSettings == [baseUrl |-> "", wsUrl |-> "", token |-> ""]

WsUrl_slice5(url) == "ws" \o Slice(url, 5)
\* main.ts:464
WsUrl(url) == "ws" \o Slice(url, 4)

\* main.ts:462-466
ReadySettings(msg) ==
    [baseUrl |-> msg.url, wsUrl |-> WsUrl(msg.url), token |-> msg.token]

\* main.ts:457
IsFailed(msg) == msg.phase = "failed"

IsReady_lower(msg) == Truthy(msg.phase) /\ ToLowerCase(msg.phase) = "ready"
\* main.ts:460
IsReady(msg) == msg.phase = "ready"

\* main.ts:454-456: the handler's local `phase`
NextPhase(phase, msg) ==
    IF Truthy(msg.phase) /\ msg.phase # phase THEN ToLowerCase(msg.phase) ELSE phase

----------------------------------------------------------------------------
(* Session store *)

StoredEntry(settings, timestamp) == [settings |-> settings, timestamp |-> timestamp]

Expiry_minutesOnly(t, minutes) == t + minutes
\* main.ts:479
Expiry(t, minutes) == t + minutes * 60 * 1000

IsUsable_orEqual(entry, t) == entry.timestamp # 0 /\ t <= entry.timestamp
\* main.ts:501: timestamp && new Date().getTime() < timestamp
IsUsable(entry, t) == entry.timestamp # 0 /\ t < entry.timestamp

\* Descriptor a previous page load may have left in the store
OldSettings == [baseUrl |-> "http://O", wsUrl |-> "ws://O", token |-> "T0"]

\* main.ts:767: storage_expire = _storage_expire || storage_expire (0: option not given)
StorageExpireOption(opt) == IF opt # 0 THEN opt ELSE DEFAULT_STORAGE_EXPIRE

----------------------------------------------------------------------------
(* Output area: OutputAreaModel list + clearNext, and the OutputArea future *)

Rec(name, text) == [name |-> name, text |-> text]

Loading == Rec("loading", "Loading...")
Failure == Rec("failure", "Failed to connect to kernel")
\* part_000:232-236
RestartFailure == Rec("failure", "Failed to restart kernel")

\* main.ts:657: binder_url.split("//")[1], the url after "https://"
BinderHost == Slice(DEFAULT_BINDER_URL, 8)

\* main.ts:658
ActionText(fromStorage) == IF ~fromStorage THEN "Launching" ELSE "Reconnecting to"

\* main.ts:660-664
Status(fromStorage) ==
    Rec("stdout", ActionText(fromStorage) \o " Docker container on " \o BinderHost \o "...")

\* The futures of the two requestExecute calls of render for call r (main.ts:633, 637)
Future(r, code) == [r |-> r, code |-> code]
NoFuture == Future(0, "none")
PreambleFuture(r) == Future(r, "preamble")
UserFuture(r) == Future(r, "user")

Attached_preamble(r) == PreambleFuture(r)
\* main.ts:637-639: the future render attaches to the output area
Attached(r) == UserFuture(r)

EmptyArea == [list |-> <<>>, clearNext |-> FALSE, future |-> NoFuture]

\* OutputAreaModel.clear(): main.ts:648, 659, 679 (clearNext stays for the next add)
Clear(o) == [o EXCEPT !.list = <<>>]

\* OutputAreaModel.clear(true): main.ts:643
ClearNext(o) == [o EXCEPT !.clearNext = TRUE]

\* OutputAreaModel.add(): consecutive stream records of one name are combined
Add(o, rec) ==
    LET base == IF o.clearNext THEN <<>> ELSE o.list
        n == Len(base)
    IN  IF n > 0 /\ base[n].name = rec.name
        THEN [o EXCEPT !.list = [base EXCEPT ![n].text = base[n].text \o rec.text],
                       !.clearNext = FALSE]
        ELSE [o EXCEPT !.list = Append(base, rec), !.clearNext = FALSE]

\* OutputArea.future = f: main.ts:637 (the setter replaces the future and clears the model)
SetFuture(o, f) == [Clear(o) EXCEPT !.future = f]

\* OutputArea._onIOPub: a record that arrives on future f is added by the area that
\* holds f, and by no other
Deliver(o, f, rec) == IF o.future = f THEN Add(o, rec) ELSE o

\* What the kernel sends on the future of a request of call r
Output(r, code) == Rec("stdout", code \o ToString(r))

----------------------------------------------------------------------------
(* The <video> element of a rendered output, main.ts:555-587 *)

\* String.prototype.startsWith
StartsWith(s, prefix) == Len(s) >= Len(prefix) /\ SubSeq(s, 1, Len(prefix)) = prefix

IsVideo_noSlash(mimetype) == StartsWith(mimetype, "video")
\* main.ts:569
IsVideo(mimetype) == StartsWith(mimetype, "video/")

\* The mimetype of a contents model that has none (JSON null)
NullMimetype == "null"

\* The src attributes a rendered output may give its video, and the mimetypes the
\* contents service may answer with
VideoSrcs == {"", "media/a.mp4"}
Mimetypes == {"video/mp4", "image/png", "video", "text/video/mp4", NullMimetype}

\* URL.createObjectURL: a fresh URL per call
BlobUrl(n) == "blob:" \o ToString(n)

\* cell: the cell whose output holds the video ("" while there is none); src, maxWidth:
\* the element; fetches: the src of each _contents_manager.get() that is awaited;
\* blobs: createObjectURL calls; changes: runs of the handler; of the last handler
\* step: op, the mimetype it was given, what it wrote to the console and the promise
\* rejections it left without a handler
NoMedia ==
    [cell |-> "", src |-> "", maxWidth |-> "", fetches |-> <<>>, blobs |-> 0,
     changes |-> 0, op |-> "none", mimetype |-> "", console |-> <<>>, unhandled |-> 0]

\* main.ts:555-568: the handler of model.changed, for the video of the output, up to
\* the await; cm is _contents_manager
ModelChangedHandler(m, cm) ==
    LET n == [m EXCEPT !.changes = @ + 1, !.op = "changed", !.mimetype = ""] IN
    IF n.src = ""
    THEN [n EXCEPT !.console = <<"fixing video", "no src for the video.">>,
                   !.unhandled = 0]
    ELSE IF cm = Null
    THEN [n EXCEPT !.maxWidth = "100%", !.console = <<"fixing video">>, !.unhandled = 1]
    ELSE [n EXCEPT !.maxWidth = "100%", !.fetches = Append(@, n.src),
                   !.console = <<"fixing video">>, !.unhandled = 0]

\* A sequence without its i-th element
Without(seq, i) == SubSeq(seq, 1, i - 1) \o SubSeq(seq, i + 1, Len(seq))

\* main.ts:568-585: the handler after the await, when get() of fetch i has resolved
\* with a file of the given mimetype (null.startsWith is a TypeError)
AfterGet(m, i, mimetype) ==
    LET n == [m EXCEPT !.fetches = Without(@, i), !.op = "got", !.mimetype = mimetype,
                       !.unhandled = 0]
    IN  IF mimetype = NullMimetype
        THEN [n EXCEPT !.console = <<>>, !.unhandled = 1]
        ELSE IF ~IsVideo(mimetype)
        THEN [n EXCEPT !.console = <<"not a video">>]
        ELSE [n EXCEPT !.blobs = @ + 1, !.src = BlobUrl(m.blobs + 1),
                       !.console = <<"video url">>]

\* main.ts:555-568: get() of fetch i has rejected; the await throws in the async
\* callback of forEach, whose promise nobody holds
AfterGetRejected(m, i) ==
    [m EXCEPT !.fetches = Without(@, i), !.op = "rejected", !.mimetype = "",
              !.console = <<>>, !.unhandled = 1]

----------------------------------------------------------------------------
(* One record per execute() call *)

NoKernel == [server |-> "", id |-> 0]

\* The promise chain of one execute() call.  Once the chain has ended (stage "done",
\* "failed" or "threw") what is left of it is the way it took, its EventSource and
\* the outcome of its launch.
NewRun(c) ==
    [cell |-> c,
     path |-> "none",           \* "held", "reconnect" or "launch"
     stage |-> "acquiring",     \* "acquiring", "restarting", "preamble", "user", "done",
                                \* "failed", "threw"
     es |-> "none",             \* EventSource: "none", "open", "closed"
     closes |-> 0,              \* es.close() calls
     phase |-> Undefined,       \* main.ts:451, while the stream is open
     binder |-> "none",         \* requestBinder's promise: "none", "pending", "resolved", "rejected"
     settings |-> NoSettings,   \* descriptor handed to requestKernel
     start |-> "none",          \* startNew's promise: "none", "pending", "resolved", "rejected"
     kernel |-> NoKernel,       \* kernel the preamble was submitted to
     userKernel |-> NoKernel,   \* kernel the user code was submitted to
     clean |-> TRUE]            \* isolated build: since the restart of this call
                                \* completed its kernel was given its preamble only

Ended(rec, stage) ==
    [NewRun(rec.cell) EXCEPT !.stage = stage, !.path = rec.path, !.es = rec.es,
                             !.closes = rec.closes, !.binder = rec.binder]

\* The last task, when it was execute() or a handler of the launch stream: op is the
\* handler, r the execute() call it belongs to, msg the launch event it was given,
\* error the message of the Error it rejected the launch promise with, calls the
\* collaborators it called
Task(op, r, msg, error, cs) == [op |-> op, r |-> r, msg |-> msg, error |-> error, calls |-> cs]
NoTask == Task("none", 0, NoMsg, "", {})

\* Isolated build: call r submits a request to kernel k.  The kernel executes its
\* requests in the order they are submitted, so this one executes between the restart
\* and the user code of every other call on k whose restart has completed and whose
\* user code is not submitted yet.
Touched(rs, k, r) ==
    [q \in 1..Len(rs) |->
        IF variant = "isolated" /\ q # r /\ rs[q].path = "held"
              /\ rs[q].stage = "preamble" /\ rs[q].kernel = k
        THEN [rs[q] EXCEPT !.clean = FALSE]
        ELSE rs[q]]

HasLiveSession_never(kernel) == FALSE
\* main.ts:647: if (_kernel)
HasLiveSession(kernel) == kernel # Null


----------------------------------------------------------------------------
(* Promise plumbing *)

ThenRuns_anySettled(binder) == binder # "pending"
\* main.ts:507-509: .then((settings) => requestKernel(settings)) runs on fulfilment only
ThenRuns(binder) == binder = "resolved"

Caught_keepStore(kernel, fromStorage, entry) ==
    [kernel |-> Null, fromStorage |-> FALSE, stored |-> entry]
Caught_keepFlag(kernel, fromStorage, entry) ==
    [kernel |-> Null, fromStorage |-> fromStorage, stored |-> Null]
\* main.ts:673-678: what the catch handler leaves in _kernel, _fromStorage and the store
Caught(kernel, fromStorage, entry) ==
    [kernel |-> Null, fromStorage |-> FALSE, stored |-> Null]

Reported_appended(o) == Add(o, Failure)
\* main.ts:679-684: the catch handler clears the area and adds the failure record
Reported(o) == Add(Clear(o), Failure)

\* main.ts:673-685: the catch handler of execute(), for call r; rs is runs with the
\* record of call r as the rejecting step leaves it
CatchHandler(r, rs) ==
    LET c == Caught(_kernel, _fromStorage, stored) IN
    /\ _kernel' = c.kernel
    /\ _fromStorage' = c.fromStorage
    /\ stored' = c.stored
    /\ out' = [out EXCEPT ![rs[r].cell] = Reported(@)]
    /\ runs' = [rs EXCEPT ![r] = Ended(@, "failed")]

\* main.ts:473-493, part_000:81-103: requestKernel(settings) up to the pending
\* startNew; rs is runs with the record of call r as the caller leaves it
RequestKernel(r, rs, settings) ==
    /\ stored' = Some(StoredEntry(settings, Expiry(now, storage_expire)))
    /\ _kernel_manager' = Some(settings.baseUrl)
    /\ _contents_manager' = IF variant = "persistent" THEN Some(settings.baseUrl)
                                                       ELSE _contents_manager
    /\ runs' = [rs EXCEPT ![r].settings = settings, ![r].start = "pending"]

\* main.ts:435-450: requestBinder() up to the pending promise
RequestBinder(rec) == [rec EXCEPT !.es = "open", !.binder = "pending"]

GetKernelPath_launchOnly(entry, t) == "launch"
\* main.ts:497-507: which way getKernel goes
GetKernelPath(entry, t) ==
    IF entry # Null /\ IsUsable(entry[1], t) THEN "reconnect" ELSE "launch"

----------------------------------------------------------------------------
(* Actions *)

\* main.ts:646-656 and 632-634: a run on the held session, up to the await in render.
\* part_000:223-252: the isolated build calls restart() on the held kernel and returns.
ExecuteHeld(c) ==
    LET r == Len(runs) + 1 IN
    /\ IF variant = "isolated"
       THEN /\ out' = out
            /\ runs' = Append(runs, [NewRun(c) EXCEPT !.path = "held",
                                                      !.stage = "restarting",
                                                      !.kernel = _kernel[1]])
            /\ task' = Task("Execute", r, NoMsg, "", {"restart"})
       ELSE /\ out' = [out EXCEPT ![c] = Add(Clear(@), Loading)]
            /\ runs' = Append(runs, [NewRun(c) EXCEPT !.path = "held",
                                                      !.stage = "preamble",
                                                      !.kernel = _kernel[1]])
            /\ task' = Task("Execute", r, NoMsg, "", {"requestExecute"})
    /\ UNCHANGED <<now, storage_expire, stored, _fromStorage, _kernel, _kernel_manager,
                   _contents_manager, variant, media>>

\* main.ts:657-668 and 495-510: a run without a held session, up to the pending promise
ExecuteAcquire(c) ==
    LET r == Len(runs) + 1
        path == GetKernelPath(stored, now)
        rec == [NewRun(c) EXCEPT !.path = path]
    IN
    /\ out' = [out EXCEPT ![c] = Add(Clear(@), Status(_fromStorage))]
    /\ _fromStorage' = IF stored # Null THEN TRUE ELSE _fromStorage
    /\ IF path = "reconnect"
       THEN /\ RequestKernel(r, Append(runs, rec), stored[1].settings)
            /\ task' = Task("Execute", r, NoMsg, "", {"getItem", "setItem", "startNew"})
       ELSE /\ stored' = Null
            /\ runs' = Append(runs, RequestBinder(rec))
            /\ task' = Task("Execute", r, NoMsg, "",
                            {"getItem", "requestBinder"}
                                \cup IF stored # Null THEN {"removeItem"} ELSE {})
            /\ UNCHANGED <<_kernel_manager, _contents_manager>>
    /\ UNCHANGED <<now, storage_expire, _kernel, variant, media>>

\* The calls of execute() on the page.  The isolated build gets one more, for the
\* acquisition that comes before the runs on a held session.
RunLimit == IF variant = "isolated" THEN MaxRuns + 1 ELSE MaxRuns

\* main.ts:647-656 and 633: a run on the held session whose first requestExecute
\* throws (the kernel is dead or disposed); render rejects and execute() returns
ExecuteThrows(c) ==
    LET r == Len(runs) + 1 IN
    /\ Len(runs) < MaxRuns
    /\ variant = "persistent"
    /\ HasLiveSession(_kernel)
    /\ out' = [out EXCEPT ![c] = Add(Clear(@), Loading)]
    /\ runs' = Append(runs, Ended([NewRun(c) EXCEPT !.path = "held"], "threw"))
    /\ task' = Task("Execute", r, NoMsg, "", {"requestExecute"})
    /\ UNCHANGED <<now, storage_expire, stored, _fromStorage, _kernel, _kernel_manager,
                   _contents_manager, variant, media>>

\* main.ts:646-686: the run control or a run keybinding of cell c
Execute(c) ==
    /\ Len(runs) < RunLimit
    /\ IF HasLiveSession(_kernel) THEN ExecuteHeld(c) ELSE ExecuteAcquire(c)

\* main.ts:452-469: es.onmessage, with the promise reactions it triggers.  A closed
\* EventSource delivers nothing, and the handler's `phase` is unreachable then.
OnMessage(r, msg) ==
    /\ r \in 1..Len(runs)
    /\ runs[r].es = "open"
    /\ LET closing == IsFailed(msg) \/ IsReady(msg)
           throws == IsReady(msg) /\ ~IsFailed(msg) /\ msg.url = Undefined
           binder == CASE runs[r].binder # "pending" -> runs[r].binder
                       [] IsFailed(msg) -> "rejected"
                       [] IsReady(msg) /\ ~throws -> "resolved"
                       [] OTHER -> "pending"
           settles == runs[r].binder = "pending" /\ binder # "pending"
           rs == [runs EXCEPT
                    ![r].phase = IF closing THEN Undefined ELSE NextPhase(@, msg),
                    ![r].es = IF closing THEN "closed" ELSE @,
                    ![r].closes = IF closing THEN @ + 1 ELSE @,
                    ![r].binder = binder]
           closed == IF closing THEN {"close"} ELSE {}
       IN
       IF ~settles
       THEN /\ runs' = rs
            /\ task' = Task("OnMessage", r, msg, "", closed)
            /\ UNCHANGED <<stored, _fromStorage, _kernel, _kernel_manager,
                           _contents_manager, out>>
       ELSE IF ThenRuns(binder)
       THEN /\ RequestKernel(r, rs, IF binder = "resolved" THEN ReadySettings(msg)
                                                           ELSE NoSettings)
            /\ task' = Task("OnMessage", r, msg,
                            IF binder = "rejected" THEN ErrorOfObject(msg) ELSE "",
                            closed \cup {"setItem", "startNew"})
            /\ UNCHANGED <<_fromStorage, _kernel, out>>
       ELSE /\ CatchHandler(r, rs)
            /\ task' = Task("OnMessage", r, msg, ErrorOfObject(msg),
                            closed \cup {"removeItem"})
            /\ UNCHANGED <<_kernel_manager, _contents_manager>>
    /\ UNCHANGED <<now, storage_expire, variant, media>>

OnErrorEs_staysOpen == "open"
\* main.ts:448: es.close() in es.onerror
OnErrorEs == "closed"

\* main.ts:447-450: es.onerror, with the promise reactions it triggers
OnError(r) ==
    /\ r \in 1..Len(runs)
    /\ runs[r].es = "open"
    /\ LET settles == runs[r].binder = "pending"
           closing == OnErrorEs = "closed"
           closed == IF closing THEN {"close"} ELSE {}
           rs == [runs EXCEPT
                    ![r].phase = IF closing THEN Undefined ELSE @,
                    ![r].es = OnErrorEs,
                    ![r].closes = IF closing THEN @ + 1 ELSE @,
                    ![r].binder = IF settles THEN "rejected" ELSE @]
       IN
       IF settles
       THEN /\ CatchHandler(r, rs)
            /\ task' = Task("OnError", r, NoMsg,
                            ErrorOfString("Unable to connect to Binder"),
                            closed \cup {"removeItem"})
       ELSE /\ runs' = rs
            /\ task' = Task("OnError", r, NoMsg, "", closed)
            /\ UNCHANGED <<stored, _fromStorage, _kernel, out>>
    /\ UNCHANGED <<now, storage_expire, _kernel_manager, _contents_manager, variant, media>>

Held_first(kernel, k) == IF kernel = Null THEN Some(k) ELSE kernel
\* main.ts:670: _kernel = kernel, whatever _kernel held
Held(kernel, k) == Some(k)

\* main.ts:486-492, 669-672, 632-634: startNew resolves; _kernel is set and render
\* runs up to its await
StartNewResolved(r) ==
    /\ r \in 1..Len(runs)
    /\ runs[r].start = "pending"
    /\ LET k == [server |-> runs[r].settings.baseUrl, id |-> r] IN
       /\ _kernel' = Held(_kernel, k)
       /\ runs' = [runs EXCEPT ![r].start = "resolved", ![r].stage = "preamble",
                               ![r].kernel = k]
    /\ task' = NoTask
    /\ UNCHANGED <<now, storage_expire, stored, _fromStorage, _kernel_manager,
                   _contents_manager, out, variant, media>>

\* main.ts:486-492, 673-685: startNew rejects; the catch handler of execute() runs
StartNewRejected(r) ==
    /\ r \in 1..Len(runs)
    /\ runs[r].start = "pending"
    /\ CatchHandler(r, runs)
    /\ task' = NoTask
    /\ UNCHANGED <<now, storage_expire, _kernel_manager, _contents_manager, variant, media>>

\* part_000:226-229: in the isolated build the promise of render is returned to the
\* chain of restart(), whose catch handler gets what render throws; main.ts:651 and
\* 671 drop the promise of render
RenderIsCaught(rec) == variant = "isolated" /\ rec.path = "held"

RestartCaught_kept(kernel) == kernel
\* part_000:230: what the catch handler of the restart chain leaves in _kernel
RestartCaught(kernel) == Null

\* part_000:229-237: the catch handler of the restart chain, for call r
RestartCatch(r, rs) ==
    /\ _kernel' = RestartCaught(_kernel)
    /\ out' = [out EXCEPT ![rs[r].cell] = Add(Clear(@), RestartFailure)]
    /\ runs' = [rs EXCEPT ![r] = Ended(@, "failed")]

\* main.ts:632-644: render rejects for call r; rs is runs as the step leaves the
\* other calls
RenderThrows(r, rs) ==
    IF RenderIsCaught(rs[r])
    THEN RestartCatch(r, rs)
    ELSE /\ runs' = [rs EXCEPT ![r] = Ended(@, "threw")]
         /\ UNCHANGED <<_kernel, out>>

\* part_000:226-228, 208-211: restart() of call r resolves and render runs up to its
\* await (a TypeError if _kernel holds no kernel by now)
RestartResolved(r) ==
    /\ r \in 1..Len(runs)
    /\ runs[r].stage = "restarting"
    /\ IF _kernel = Null
       THEN RenderThrows(r, runs)
       ELSE /\ runs' = [Touched(runs, _kernel[1], r) EXCEPT
                           ![r].stage = "preamble", ![r].kernel = _kernel[1],
                           ![r].clean = _kernel[1] = runs[r].kernel]
            /\ UNCHANGED <<_kernel, out>>
    /\ task' = NoTask
    /\ UNCHANGED <<now, storage_expire, stored, _fromStorage, _kernel_manager,
                   _contents_manager, variant, media>>

\* part_000:226-237: restart() of call r rejects
RestartRejected(r) ==
    /\ r \in 1..Len(runs)
    /\ runs[r].stage = "restarting"
    /\ RestartCatch(r, runs)
    /\ task' = NoTask
    /\ UNCHANGED <<now, storage_expire, stored, _fromStorage, _kernel_manager,
                   _contents_manager, variant, media>>

\* A kernel answers its requests in the order they were submitted: the preamble of
\* call r is answered after the preambles submitted to the same kernel by earlier
\* calls.  (A restart of the isolated build may drop a request that is under way.)
InTurn(r) ==
    variant = "persistent" =>
       \A q \in 1..(r - 1) :
          ~(runs[q].stage = "preamble" /\ runs[q].kernel = runs[r].kernel)

\* main.ts:635-643: the preamble has completed, with what it printed sent on its own
\* future; render submits the user code to the kernel _kernel holds now (a TypeError
\* if it holds none)
PreambleDone(r) ==
    /\ r \in 1..Len(runs)
    /\ runs[r].stage = "preamble"
    /\ InTurn(r)
    /\ IF _kernel = Null
       THEN RenderThrows(r, runs)
       ELSE /\ runs' = [Touched(runs, _kernel[1], r) EXCEPT
                           ![r].stage = "user", ![r].userKernel = _kernel[1],
                           ![r].clean = @ /\ _kernel[1] = runs[r].kernel]
            /\ out' = [c \in Cells |->
                          LET o == Deliver(out[c], PreambleFuture(r), Output(r, "preamble"))
                          IN  IF c = runs[r].cell
                              THEN ClearNext(Add(SetFuture(o, Attached(r)), Loading))
                              ELSE o]
            /\ UNCHANGED _kernel
    /\ task' = NoTask
    /\ UNCHANGED <<now, storage_expire, stored, _fromStorage, _kernel_manager,
                   _contents_manager, variant, media>>

\* main.ts:634: t.done rejects (the kernel died, or the request was cancelled)
PreambleRejected(r) ==
    /\ r \in 1..Len(runs)
    /\ runs[r].stage = "preamble"
    /\ InTurn(r)
    /\ RenderThrows(r, runs)
    /\ task' = NoTask
    /\ UNCHANGED <<now, storage_expire, stored, _fromStorage, _kernel_manager,
                   _contents_manager, variant, media>>

\* main.ts:637: the user code's output arrives on the future attached to the area
UserOutput(r) ==
    /\ r \in 1..Len(runs)
    /\ runs[r].stage = "user"
    /\ runs' = [runs EXCEPT ![r] = Ended(@, "done")]
    /\ out' = [out EXCEPT ![runs[r].cell] =
                  Deliver(@, UserFuture(r), Output(r, "user"))]
    /\ task' = NoTask
    /\ UNCHANGED <<now, storage_expire, stored, _fromStorage, _kernel, _kernel_manager,
                   _contents_manager, variant>>

\* The output holds no video
UserDone(r) == UserOutput(r) /\ UNCHANGED media

\* main.ts:555-568: the output is shown and holds a <video src>; the model has changed
\* and the handler runs
UserDoneVideo(r, src) ==
    /\ UserOutput(r)
    /\ out[runs[r].cell].future = UserFuture(r)
    /\ media.cell = ""
    /\ media' = ModelChangedHandler([media EXCEPT !.cell = runs[r].cell, !.src = src],
                                    _contents_manager)

Unchanged_page ==
    UNCHANGED <<now, storage_expire, stored, _fromStorage, _kernel, _kernel_manager,
                _contents_manager, out, runs, variant>>

\* main.ts:555-568: the model of the output that shows the video changes again
ModelChanged ==
    /\ media.cell # ""
    /\ media.changes < MaxChanges
    /\ media' = ModelChangedHandler(media, _contents_manager)
    /\ task' = NoTask
    /\ Unchanged_page

\* main.ts:568-585: a get() resolves; the contents service has no file under a blob
\* URL
GetResolved(i, mimetype) ==
    /\ i \in 1..Len(media.fetches)
    /\ ~StartsWith(media.fetches[i], "blob:")
    /\ media' = AfterGet(media, i, mimetype)
    /\ task' = NoTask
    /\ Unchanged_page

\* main.ts:568: a get() rejects
GetRejected(i) ==
    /\ i \in 1..Len(media.fetches)
    /\ media' = AfterGetRejected(media, i)
    /\ task' = NoTask
    /\ Unchanged_page


\* Somebody is still to read the clock: getKernel of a later run (main.ts:501) or
\* requestKernel of a launch under way (main.ts:479)
ClockIsRead == Len(runs) < MaxRuns \/ \E r \in 1..Len(runs) : runs[r].binder = "pending"

\* main.ts:479, 501: new Date().getTime() moves on
Tick ==
    /\ now < Now0 + MaxTicks * TickMs
    /\ ClockIsRead
    /\ now' = now + TickMs
    /\ task' = NoTask
    /\ UNCHANGED <<storage_expire, stored, _fromStorage, _kernel, _kernel_manager,
                   _contents_manager, out, runs, variant, media>>

----------------------------------------------------------------------------
(* Specifications *)

\* What a previous page load may have left under storage_key
InitialStore ==
    {Null} \cup {Some(StoredEntry(OldSettings, t)) : t \in {0, Now0, Now0 + TickMs}}

\* main.ts:421-433 and 756-771: the page after initManimBinder(options)
InitWith(options) ==
    /\ now = Now0
    /\ storage_expire \in {StorageExpireOption(opt) : opt \in options}
    /\ stored \in InitialStore
    /\ _fromStorage = FALSE
    /\ _kernel = Null
    /\ _kernel_manager = Null
    /\ _contents_manager = Null
    /\ out = [c \in Cells |-> EmptyArea]
    /\ runs = <<>>
    /\ task = NoTask
    /\ variant = "persistent"
    /\ media = NoMedia

\* initManimBinder() without a storage_expire option
Init == InitWith({0})

\* The cells are alike: the first run is taken to be c1's
InOrder(c) == c = "c1" \/ Len(runs) > 0

\* The page: the launch service answers each launch with a terminal event
Next ==
    \/ \E c \in Cells : InOrder(c) /\ Execute(c)
    \/ \E r \in 1..MaxRuns, msg \in TerminalMsgs : OnMessage(r, msg)
    \/ \E r \in 1..MaxRuns : OnError(r)
    \/ \E r \in 1..MaxRuns : StartNewResolved(r)
    \/ \E r \in 1..MaxRuns : StartNewRejected(r)
    \/ \E r \in 1..MaxRuns : PreambleDone(r)
    \/ \E r \in 1..MaxRuns : UserDone(r)
    \/ Tick

Spec == Init /\ [][Next]_vars

\* One launch: the first run of the page, with or without a storage_expire option
\* and with every event the launch service may send
InitLaunch == InitWith({0, 30})

NextLaunch ==
    \/ \E c \in Cells : Len(runs) = 0 /\ Execute(c)
    \/ \E msg \in Msgs : OnMessage(1, msg)
    \/ OnError(1)
    \/ StartNewResolved(1)
    \/ StartNewRejected(1)
    \/ PreambleDone(1)
    \/ UserDone(1)
    \/ Tick

SpecLaunch == InitLaunch /\ [][NextLaunch]_vars

\* One run of the page whose output may hold a video
NextVideo ==
    \/ \E c \in Cells : Len(runs) = 0 /\ InOrder(c) /\ Execute(c)
    \/ \E msg \in TerminalMsgs : OnMessage(1, msg)
    \/ OnError(1)
    \/ StartNewResolved(1)
    \/ StartNewRejected(1)
    \/ PreambleDone(1)
    \/ UserDone(1)
    \/ \E src \in VideoSrcs : UserDoneVideo(1, src)
    \/ ModelChanged
    \/ \E i \in 1..MaxChanges, mimetype \in Mimetypes : GetResolved(i, mimetype)
    \/ \E i \in 1..MaxChanges : GetRejected(i)

SpecVideo == Init /\ [][NextVideo]_vars

\* The page when requests to the kernel may fail
NextFaults ==
    \/ Next
    \/ \E c \in Cells : InOrder(c) /\ ExecuteThrows(c)
    \/ \E r \in 1..MaxRuns : PreambleRejected(r)

SpecFaults == Init /\ [][NextFaults]_vars

\* part_000:26-45: the page of the isolated build; STORAGE_EXPIRE is fixed, and the
\* store is empty or holds an unexpired descriptor
InitIsolated ==
    /\ now = Now0
    /\ storage_expire = DEFAULT_STORAGE_EXPIRE
    /\ stored \in {Null, Some(StoredEntry(OldSettings, Now0 + TickMs))}
    /\ _fromStorage = FALSE
    /\ _kernel = Null
    /\ _kernel_manager = Null
    /\ _contents_manager = Null
    /\ out = [c \in Cells |-> EmptyArea]
    /\ runs = <<>>
    /\ task = NoTask
    /\ variant = "isolated"
    /\ media = NoMedia

\* No acquisition is under way
Quiet == \A r \in 1..Len(runs) : runs[r].stage # "acquiring"

\* The page of the isolated build; the user waits for an acquisition to end before
\* the next run, and runs at will on a held session
NextIsolated ==
    \/ \E c \in Cells : InOrder(c) /\ Quiet /\ Execute(c)
    \/ \E r \in 1..RunLimit, msg \in TerminalMsgs : OnMessage(r, msg)
    \/ \E r \in 1..RunLimit : OnError(r)
    \/ \E r \in 1..RunLimit : StartNewResolved(r)
    \/ \E r \in 1..RunLimit : StartNewRejected(r)
    \/ \E r \in 1..RunLimit : RestartResolved(r)
    \/ \E r \in 1..RunLimit : RestartRejected(r)
    \/ \E r \in 1..RunLimit : PreambleDone(r)
    \/ \E r \in 1..RunLimit : PreambleRejected(r)
    \/ \E r \in 1..RunLimit : UserDone(r)

SpecIsolated == InitIsolated /\ [][NextIsolated]_vars


----------------------------------------------------------------------------
(* Properties *)

\* The step is a call of execute(): it adds the last record of runs'
Executes == Len(runs') = Len(runs) + 1

\* The step is the catch handler of call r
Fails(r) == runs[r].stage = "acquiring" /\ runs'[r].stage = "failed"

\* Call r has not ended: no output of its user code and no failure has arrived
Pending(r) == runs[r].stage \in {"acquiring", "restarting", "preamble", "user"}

\* Call r is the last run triggered on its cell
LastOfCell(r) == \A q \in (r + 1)..Len(runs) : runs[q].cell # runs[r].cell

\* C1: a run triggered (from any cell) while _kernel is non-null calls neither the
\* launch service nor the store nor startNew; it submits the preamble to the held
\* kernel at once and leaves the session state as it is.
C1_IdempotentReuse ==
    [][(Executes /\ _kernel # Null) =>
          LET n == Len(runs') IN
          /\ task'.calls = {"requestExecute"}
          /\ runs'[n].path = "held"
          /\ runs'[n].stage = "preamble"
          /\ runs'[n].kernel = _kernel[1]
          /\ runs'[n].es = "none" /\ runs'[n].start = "none"
          /\ UNCHANGED <<stored, _kernel, _fromStorage, _kernel_manager,
                         _contents_manager>>]_vars

\* C1 witness: a run of the second cell has just been submitted on the held session
C1_Witness ==
    /\ task.op = "Execute"
    /\ runs[task.r].path = "held"
    /\ runs[task.r].cell = "c2"
    /\ _kernel # Null

\* C2: a stored entry whose timestamp is missing, equal to the current time or in the
\* past is never handed to requestKernel: getKernel removes it and requests a launch.
C2_StaleNeverReused ==
    [][(Executes /\ _kernel = Null /\ stored # Null
          /\ (stored[1].timestamp = 0 \/ stored[1].timestamp <= now)) =>
          LET n == Len(runs') IN
          /\ stored' = Null
          /\ "removeItem" \in task'.calls
          /\ "requestBinder" \in task'.calls
          /\ "startNew" \notin task'.calls /\ "setItem" \notin task'.calls
          /\ runs'[n].path = "launch"
          /\ runs'[n].es = "open" /\ runs'[n].start = "none"]_vars

\* C2 witness: an entry that expired exactly now has just been removed by a run
C2_Witness ==
    /\ task.op = "Execute"
    /\ "removeItem" \in task.calls
    /\ stored = Null
    /\ runs[task.r].path = "launch"

\* C3: with no live session and an unexpired stored entry, the run starts a backend
\* session with the stored descriptor and makes no request to the launch service,
\* neither then nor later in that acquisition.
C3_ReconnectSkipsLaunch ==
    [][/\ (Executes /\ _kernel = Null /\ stored # Null
             /\ stored[1].timestamp # 0 /\ now < stored[1].timestamp) =>
             LET n == Len(runs') IN
             /\ runs'[n].path = "reconnect"
             /\ runs'[n].settings = stored[1].settings
             /\ runs'[n].start = "pending"
             /\ "startNew" \in task'.calls
             /\ "requestBinder" \notin task'.calls
       /\ \A r \in 1..Len(runs') :
             runs'[r].path = "reconnect" =>
                runs'[r].es = "none" /\ runs'[r].binder = "none"]_vars

\* C3 witness: a run is reconnecting with the descriptor found in the store
C3_Witness ==
    /\ task.op = "Execute"
    /\ runs[task.r].path = "reconnect"
    /\ runs[task.r].start = "pending"
    /\ runs[task.r].settings = OldSettings

\* C4 as stated: a reconnection that fails is not reported as failed before the same
\* call has requested a fresh backend from the launch service.
C4_FallsThroughToLaunch ==
    [][\A r \in 1..Len(runs) :
          (runs[r].path = "reconnect" /\ runs[r].es = "none") => ~Fails(r)]_vars

\* C4 amended: when the kernel start with the stored descriptor rejects, the catch
\* handler of that call removes the stored entry, clears _kernel and reports the
\* failure in the cell; the call opens no launch stream.
C4_ReconnectFailureIsReported ==
    [][\A r \in 1..Len(runs) :
          (runs[r].path = "reconnect" /\ Fails(r)) =>
             /\ stored' = Null
             /\ _kernel' = Null
             /\ out'[runs[r].cell].list = <<Failure>>
             /\ runs'[r].es = "none" /\ runs'[r].binder = "none"
             /\ \A q \in 1..Len(runs) : runs'[q].es = runs[q].es]_vars

\* C4 witness: a reconnection has failed and its cell shows the failure
C4_Witness ==
    \E r \in 1..Len(runs) :
       /\ runs[r].path = "reconnect"
       /\ runs[r].stage = "failed"
       /\ out[runs[r].cell].list = <<Failure>>
       /\ stored = Null

\* C5: the handler of a failed acquisition leaves _kernel null, the store empty and
\* _fromStorage false; a run triggered after a failure, with no session held and no
\* acquisition in flight, takes the launch flow and not the reconnection path.
C5_FailureClearsState ==
    [][/\ \A r \in 1..Len(runs) :
             Fails(r) => _kernel' = Null /\ stored' = Null /\ ~_fromStorage'
       /\ (Executes /\ _kernel = Null
             /\ (\E r \in 1..Len(runs) : runs[r].stage = "failed")
             /\ (\A r \in 1..Len(runs) : runs[r].stage # "acquiring")) =>
             LET n == Len(runs') IN
             /\ runs'[n].path = "launch"
             /\ task'.calls = {"getItem", "requestBinder"}
             /\ out'[runs'[n].cell].list
                   = <<Rec("stdout", "Launching Docker container on mybinder.org...")>>]_vars

\* C5 witness: the acquisition of the first run failed and the second run launches
C5_Witness ==
    /\ Len(runs) = 2
    /\ runs[1].stage = "failed"
    /\ task.op = "Execute" /\ task.r = 2
    /\ runs[2].path = "launch"

\* C6: a ready event with url U and token T resolves the launch with baseUrl U, wsUrl
\* "ws" followed by U without its first 4 characters, and token T, whatever events
\* came before it; the stream has then been closed exactly once.
C6_ReadyResolves ==
    /\ (task.op = "OnMessage" /\ task.msg.phase = "ready" /\ task.msg.url # Undefined) =>
          LET U == task.msg.url
              rec == runs[task.r]
          IN  /\ rec.binder = "resolved"
              /\ rec.settings = [baseUrl |-> U,
                                 wsUrl |-> "ws" \o SubSeq(U, 5, Len(U)),
                                 token |-> task.msg.token]
              /\ U = "http://X" => rec.settings.wsUrl = "ws://X"
              /\ U = "https://Y" => rec.settings.wsUrl = "wss://Y"
              /\ rec.es = "closed" /\ rec.closes = 1
    /\ \A r \in 1..Len(runs) :
          /\ runs[r].closes <= 1
          /\ runs[r].binder = "resolved" => runs[r].closes = 1

\* C6 witness: the launch has just resolved on a ready event of an https server
C6_Witness ==
    /\ task.op = "OnMessage"
    /\ task.msg.phase = "ready"
    /\ task.msg.url = "https://Y"
    /\ runs[task.r].binder = "resolved"

\* C7: a failed event with message m closes the stream and rejects the launch with an
\* error that carries m.
C7_FailedCarriesMessage ==
    (task.op = "OnMessage" /\ task.msg.phase = "failed") =>
       /\ runs[task.r].es = "closed"
       /\ runs[task.r].binder = "rejected"
       /\ task.error = task.msg.message

\* C8: the store is written only by a reconnection from an unexpired entry or after a
\* launch resolved on a ready event; a launch ended by a failed event or by a stream
\* error writes nothing.
C8_NoPersistOnFailedLaunch ==
    [][/\ ("setItem" \in task'.calls \/ (stored' # Null /\ stored' # stored)) =>
             \/ /\ Executes
                /\ stored # Null /\ stored[1].timestamp # 0 /\ now < stored[1].timestamp
                /\ stored'[1].settings = stored[1].settings
             \/ /\ task'.op = "OnMessage" /\ task'.msg.phase = "ready"
                /\ runs[task'.r].binder = "pending"
                /\ runs'[task'.r].binder = "resolved"
                /\ stored'[1].settings.baseUrl = task'.msg.url
       /\ \A r \in 1..Len(runs) :
             (runs[r].binder = "pending" /\ runs'[r].binder = "rejected") =>
                "setItem" \notin task'.calls /\ stored' = Null]_vars

\* C8 witness: a launch has just been rejected by a failed event and the store is empty
C8_Witness ==
    /\ task.op = "OnMessage"
    /\ task.msg.phase = "failed"
    /\ runs[task.r].binder = "rejected"
    /\ stored = Null

\* C9: an event whose phase is neither "ready" nor "failed" leaves the launch promise
\* pending and the stream open, whatever came before it.
C9_OtherPhasesDoNothing ==
    (task.op = "OnMessage" /\ task.msg.phase \notin {"ready", "failed"}) =>
       /\ runs[task.r].binder = "pending"
       /\ runs[task.r].es = "open"
       /\ runs[task.r].closes = 0
       /\ runs[task.r].stage = "acquiring"
       /\ task.calls = {}

\* C9 witness: an event of phase "Ready" has been delivered after another phase
C9_Witness ==
    /\ task.op = "OnMessage"
    /\ task.msg.phase = "Ready"
    /\ runs[task.r].phase = "ready"
    /\ runs[task.r].es = "open"

\* C10: a stream error on an open stream closes it and rejects the launch; a launch
\* promise that has been resolved or rejected keeps its outcome, and its stream is
\* closed.
C10_ErrorRejectsOnce ==
    [][/\ (task'.op = "OnError" /\ task' # task) =>
             /\ runs[task'.r].binder = "pending"
             /\ runs'[task'.r].binder = "rejected"
             /\ runs'[task'.r].es = "closed" /\ runs'[task'.r].closes = 1
             /\ task'.error = "Unable to connect to Binder"
       /\ \A r \in 1..Len(runs) :
             runs[r].binder \in {"resolved", "rejected"} =>
                runs'[r].binder = runs[r].binder /\ runs'[r].es = "closed"]_vars

\* C10 witness: a stream error has just rejected a pending launch
C10_Witness ==
    /\ task.op = "OnError"
    /\ runs[task.r].binder = "rejected"
    /\ runs[task.r].stage = "failed"
    /\ task.error = "Unable to connect to Binder"

\* C11: the user code of a run is submitted only by the continuation of render that
\* runs when the run's preamble has completed; that step shows nothing of what the
\* preamble printed, in no cell, and attaches the user code's future to the cell's
\* area; no area ever holds a preamble future, and the output of the user code is
\* shown only by the area that holds its future.
C11_PreambleBeforeUserCode ==
    [][\A r \in 1..Len(runs') :
          /\ (runs'[r].stage = "user" /\ (r > Len(runs) \/ runs[r].stage # "user")) =>
                /\ r <= Len(runs) /\ runs[r].stage = "preamble"
                /\ out'[runs'[r].cell].future = UserFuture(r)
                /\ out'[runs'[r].cell].list = <<Loading>>
                /\ \A c \in Cells \ {runs'[r].cell} : out'[c] = out[c]
          /\ (runs'[r].stage = "done" /\ r <= Len(runs) /\ runs[r].stage # "done") =>
                /\ runs[r].stage = "user"
                /\ \A c \in Cells :
                      out'[c] # out[c] =>
                         /\ c = runs[r].cell
                         /\ out[c].future = UserFuture(r)
                         /\ out'[c].list[Len(out'[c].list)].name = "stdout"
          /\ \A c \in Cells : out'[c].future.code # "preamble"]_vars

\* C11 witness: the second run, on the held session, has shown its user code's output
C11_Witness ==
    /\ Len(runs) = 2
    /\ runs[2].path = "held" /\ runs[2].stage = "done"
    /\ out[runs[2].cell].future = UserFuture(2)
    /\ out[runs[2].cell].list = <<Output(2, "user")>>

\* C12: from the run trigger until the first output of the run (or its failure), the
\* output area of the cell holds exactly one record, the "Loading..." placeholder:
\* while a session is acquired, while the kernel restarts in the isolated build, and
\* while the preamble and the user code execute.
C12_LoadingUntilFirstOutput ==
    \A r \in 1..Len(runs) :
       (Pending(r) /\ LastOfCell(r)) => out[runs[r].cell].list = <<Loading>>

\* C13: when the acquisition of a call fails (the launch is rejected by a failed event
\* or a stream error, or the kernel start rejects), the area of the cell of that call
\* holds the failure record and nothing else, and the area of every other cell is as
\* it was; a call fails at most once.
C13_OneFailureRecord ==
    [][\A r \in 1..Len(runs) :
          /\ Fails(r) =>
                /\ out'[runs[r].cell].list = <<Failure>>
                /\ \A c \in Cells \ {runs[r].cell} : out'[c] = out[c]
          /\ runs[r].stage = "failed" => runs'[r] = runs[r]]_vars

\* C13 witness: a launch has failed in one cell, which shows the failure record alone,
\* while the other cell shows the status text of its own run
C13_Witness ==
    \E r \in 1..Len(runs) :
       /\ runs[r].path = "launch" /\ runs[r].stage = "failed"
       /\ runs[r].binder = "rejected"
       /\ out[runs[r].cell].list = <<Failure>>
       /\ \E c \in Cells \ {runs[r].cell} :
             Len(out[c].list) = 1 /\ out[c].list[1].name = "stdout"

\* C14: no promise of a run is rejected without a handler: the promise of render is
\* never rejected unhandled, neither when requestExecute throws nor when the
\* completion of the preamble rejects.
C14_NoUnhandledRejection ==
    \A r \in 1..Len(runs) : runs[r].stage # "threw"

\* C15: a run that has ended in a failure, of the acquisition or of the execution,
\* has surfaced a failure record: when it is the last run of its cell and no output
\* is still to come, the area of the cell does not show the pending placeholder or
\* the status text alone.
C15_FailureIsSurfaced ==
    \A r \in 1..Len(runs) :
       (runs[r].stage \in {"failed", "threw"} /\ LastOfCell(r)) =>
          \E i \in 1..Len(out[runs[r].cell].list) :
             out[runs[r].cell].list[i].name = "failure"

\* The step is the handler of model.changed resuming after a get()
Resumes == Len(media'.fetches) < Len(media.fetches)

\* C16: when get() resolves with a file whose mimetype does not start with "video/",
\* the handler leaves the src of the video as it was, writes "not a video" to the
\* console and throws nothing.
C16_NonVideoLeavesSrc ==
    [][(Resumes /\ media'.op = "got" /\ media'.mimetype # NullMimetype
          /\ ~(Len(media'.mimetype) >= 6 /\ SubSeq(media'.mimetype, 1, 6) = "video/")) =>
          /\ media'.src = media.src
          /\ media'.blobs = media.blobs
          /\ media'.console = <<"not a video">>
          /\ media'.unhandled = 0]_vars

\* C16 witness: the file behind the video of an output was an image; the video keeps
\* its src
C16_Witness ==
    /\ media.op = "got"
    /\ media.mimetype = "image/png"
    /\ media.src = "media/a.mp4"
    /\ media.console = <<"not a video">>

\* C17: when get() rejects, the handler writes a diagnostic to the console, leaves
\* the src of the video as it was, and leaves no promise rejected without a handler.
C17_FetchFailureIsContained ==
    [][(Resumes /\ media'.op = "rejected") =>
          /\ media'.src = media.src
          /\ media'.console # <<>>
          /\ media'.unhandled = 0]_vars

\* The step is restart() of call r rejecting
RestartFails(r) == runs[r].stage = "restarting" /\ runs'[r].stage = "failed"

\* C18: in the isolated build, when the restart of a run rejects, _kernel is null
\* after the handler and the cell of the run shows the restart failure record alone;
\* a run triggered after that while _kernel is null calls neither restart nor
\* requestExecute on the old kernel: it goes through getKernel.
C18_RestartFailureReacquires ==
    [][/\ \A r \in 1..Len(runs) :
             RestartFails(r) =>
                /\ _kernel' = Null
                /\ out'[runs[r].cell].list = <<RestartFailure>>
       /\ (Executes /\ _kernel = Null
                    /\ \E r \in 1..Len(runs) :
                          runs[r].path = "held" /\ runs[r].stage = "failed") =>
             LET n == Len(runs') IN
             /\ runs'[n].path \in {"launch", "reconnect"}
             /\ runs'[n].stage = "acquiring"
             /\ "getItem" \in task'.calls
             /\ "restart" \notin task'.calls /\ "requestExecute" \notin task'.calls]_vars

\* C18 witness: the restart of the second run failed, its cell shows the failure, and
\* the third run is acquiring a session
C18_Witness ==
    /\ Len(runs) = 3
    /\ runs[2].path = "held" /\ runs[2].stage = "failed"
    /\ runs[3].cell # runs[2].cell
    /\ out[runs[2].cell].list = <<RestartFailure>>
    /\ task.op = "Execute" /\ task.r = 3
    /\ runs[3].stage = "acquiring"
    /\ _kernel = Null

\* C19: in the isolated build, a run on a held session submits its user code to the
\* kernel it restarted, and between the completion of that restart and this
\* submission the kernel was given the preamble of that run and no request of another
\* run.
C19_RunStartsClean ==
    \A r \in 1..Len(runs) :
       (runs[r].path = "held" /\ runs[r].stage = "user") => runs[r].clean

\* C20: the step in which a launch resolves writes the descriptor of the ready event
\* to the store with timestamp = current time + storage_expire * 60 * 1000 ms, where
\* storage_expire is the option given to initManimBinder or 60, and only then issues
\* startNew: whenever the start of a launched session is pending or over, the write
\* has been made.
C20_ExpiryWrittenBeforeStart ==
    [][/\ \A r \in 1..Len(runs) :
             (runs[r].binder = "pending" /\ runs'[r].binder = "resolved") =>
                /\ stored' = Some([settings |-> [baseUrl |-> task'.msg.url,
                                                 wsUrl |-> runs'[r].settings.wsUrl,
                                                 token |-> task'.msg.token],
                                   timestamp |-> now + storage_expire * 60 * 1000])
                /\ storage_expire \in {60, 30}
                /\ storage_expire = 60 => stored'[1].timestamp = now + 3600000
                /\ runs[r].start = "none" /\ runs'[r].start = "pending"
                /\ {"setItem", "startNew"} \subseteq task'.calls
       /\ \A r \in 1..Len(runs') :
             (runs'[r].path = "launch" /\ runs'[r].start = "pending") =>
                stored' # Null /\ stored'[1].settings = runs'[r].settings]_vars

\* C20 witness: a launch on a page with storage_expire 30 has resolved at the second
\* clock reading and its session start is pending; the entry expires 30 minutes later
C20_Witness ==
    /\ Len(runs) = 1
    /\ runs[1].path = "launch" /\ runs[1].start = "pending"
    /\ storage_expire = 30
    /\ now = Now0 + TickMs
    /\ task.op = "OnMessage"
    /\ stored # Null /\ stored[1].timestamp = now + 1800000

\* The step is startNew of call r resolving
Starts(r) == runs[r].start = "pending" /\ runs'[r].start = "resolved"

\* C21: a run triggered while _kernel is null starts an acquisition of its own (a
\* launch stream or a kernel start), also while acquisitions of other runs are under
\* way; when the kernel start of a call resolves, _kernel holds the kernel of that
\* call, whatever it held before.
C21_LastAcquisitionWins ==
    [][/\ (Executes /\ _kernel = Null) =>
             LET n == Len(runs') IN
             /\ runs'[n].stage = "acquiring"
             /\ \/ runs'[n].path = "launch" /\ runs'[n].es = "open"
                \/ runs'[n].path = "reconnect" /\ runs'[n].start = "pending"
             /\ \A r \in 1..Len(runs) : runs'[r] = runs[r]
       /\ \A r \in 1..Len(runs) :
             Starts(r) =>
                /\ _kernel' # Null
                /\ _kernel'[1].id = r
                /\ _kernel'[1] = runs'[r].kernel]_vars

\* C21 witness: the runs of two cells acquired at the same time; the first got its
\* kernel and awaits its preamble on it, and _kernel holds the kernel of the second
C21_Witness ==
    /\ Len(runs) = 2
    /\ runs[1].cell # runs[2].cell
    /\ runs[1].path # "held" /\ runs[2].path # "held"
    /\ runs[1].stage = "preamble" /\ runs[1].kernel.id = 1
    /\ runs[2].stage = "preamble" /\ runs[2].kernel.id = 2
    /\ _kernel # Null /\ _kernel[1].id = 2

\* C22: whenever _kernel holds a kernel, the kernel manager, the contents manager and
\* the stored descriptor are those of the server that started that kernel.
C22_ManagersMatchKernel ==
    _kernel # Null =>
       /\ _kernel_manager = Some(_kernel[1].server)
       /\ _contents_manager = Some(_kernel[1].server)
       /\ stored # Null
       /\ stored[1].settings.baseUrl = _kernel[1].server

\* C23: when no run of a cell is pending any more and the run triggered last on the
\* cell has completed, the area of the cell shows the output of that run and nothing
\* else.
C23_LastRunIsShown ==
    \A r \in 1..Len(runs) :
       (/\ LastOfCell(r)
        /\ runs[r].stage = "done"
        /\ \A q \in 1..Len(runs) : runs[q].cell = runs[r].cell => ~Pending(q)) =>
          out[runs[r].cell].list = <<Output(r, "user")>>

\* C24: when the acquisition of a call fails while _kernel holds the kernel that the
\* acquisition of another call established, _kernel and the stored entry are left as
\* they are.
C24_FailureKeepsLiveSession ==
    [][\A r \in 1..Len(runs) :
          (Fails(r) /\ _kernel # Null) => _kernel' = _kernel /\ stored' = stored]_vars

\* C25: the launch promise of a call whose event stream has been closed is settled;
\* no state has the stream closed and the promise pending (a closed stream delivers
\* no further event that could settle it).
C25_ClosedStreamIsSettled ==
    \A r \in 1..Len(runs) :
       runs[r].es = "closed" => runs[r].binder \in {"resolved", "rejected"}

\* C26: the status record an acquiring execute() shows says "Reconnecting to"
\* exactly when that call takes the reconnection path and "Launching" exactly when
\* it asks the launch service.
C26_StatusNamesThePath ==
    [][(Executes /\ _kernel = Null) =>
          LET n == Len(runs')
              shown == out'[runs'[n].cell].list
          IN  /\ (runs'[n].path = "reconnect") <=> (shown = <<Status(TRUE)>>)
              /\ (runs'[n].path = "launch") <=> (shown = <<Status(FALSE)>>)]_vars

\* C27: once a video's source is a locally created URL, no later step issues a
\* file-contents fetch for it or changes its source.
C27_VideoProcessedOnce ==
    [][StartsWith(media.src, "blob:") =>
          /\ Len(media'.fetches) <= Len(media.fetches)
          /\ media'.src = media.src]_vars

====
